---- MODULE Spec2Model ----
(***************************************************************************)
(* Model of fignet.collision.CollisionManager (src/fignet/collision.py):   *)
(* the registry of named collision objects, the absolute/relative          *)
(* transform bookkeeping and the resolution of raw contacts into named     *)
(* collision pairs.                                                        *)
(*                                                                         *)
(* Transforms are 4x4 integer matrices (tuples of rows); the products,     *)
(* inverses and vertex transformations are computed, not abstracted.       *)
(* Meshes are caller-owned instances held by reference, so the vertex data *)
(* lives in a heap indexed by mesh instance.  Engine objects (the BVH      *)
(* geometry and the CollisionObject built by one add_object call) are      *)
(* identified by the geometry id.                                          *)
(***************************************************************************)
EXTENDS Integers, Sequences, FiniteSets, TLC

\* ------------------------------------------------------------------ bounds
MaxCalls == 4
MaxShapes == 3
MaxContacts == 2
MaxCopies == 1

\* ------------------------------------------------------------------ inputs
Names == {"a", "b"}
MeshIds == {"m1", "m2"}

\* what dict.get returns for a missing key (Python None)
None == "None"

Eye4 == << <<1, 0, 0, 0>>, <<0, 1, 0, 0>>, <<0, 0, 1, 0>>, <<0, 0, 0, 1>> >>
\* translation by one unit along x
TransX == << <<1, 0, 0, 1>>, <<0, 1, 0, 0>>, <<0, 0, 1, 0>>, <<0, 0, 0, 1>> >>
\* rotation by 90 degrees about z
RotZ == << <<0, -1, 0, 0>>, <<1, 0, 0, 0>>, <<0, 0, 1, 0>>, <<0, 0, 0, 1>> >>
\* a 3x3 array: not a homogeneous transform
Bad3x3 == << <<1, 0, 0>>, <<0, 1, 0>>, <<0, 0, 1>> >>

\* transforms a caller passes to set_transform
Transforms == {TransX, RotZ}
\* arrays a caller passes to set_transform (the shape is not validated there)
SetTransformArgs == Transforms \cup {Bad3x3}
\* the default argument transform=None of add_object
NoTransform == <<>>
\* transforms a caller passes to add_object
AddTransforms == {NoTransform, TransX, Bad3x3}

\* geometry ids a raw contact may carry (ids of models not built are unknown)
ContactGeoms == {1, 2}
\* sub-element (triangle) indices a raw contact may carry
SubElems == {0, 1}

\* the mesh instances trimesh's copy() creates, in the order it creates them
CopyIds == <<"c1", "c2", "c3", "c4">>

\* vertex data of the caller's meshes before any registration
InitVerts(m) ==
    IF m = "m1" THEN << <<0, 0, 0>>, <<1, 0, 0>>, <<0, 2, 0>> >>
    ELSE << <<0, 0, 0>>, <<2, 0, 0>>, <<0, 0, 1>> >>

\* ------------------------------------------------------------ numpy helpers
\* ndarray.shape
Shape(M) == <<Len(M), Len(M[1])>>

\* a @ b for 4x4 matrices
MatMul(A, B) ==
    [i \in 1..4 |-> [j \in 1..4 |->
        A[i][1] * B[1][j] + A[i][2] * B[2][j] + A[i][3] * B[3][j] + A[i][4] * B[4][j]]]

\* t[:3, :3]
Rot(T) == [i \in 1..3 |-> [j \in 1..3 |-> T[i][j]]]

\* t[:3, 3]
Trans(T) == [i \in 1..3 |-> T[i][4]]

\* np.linalg.inv on a rigid transform: [R^T | -R^T t]
Inv(T) ==
    [i \in 1..4 |-> [j \in 1..4 |->
        IF i = 4 THEN (IF j = 4 THEN 1 ELSE 0)
        ELSE IF j <= 3 THEN T[j][i]
        ELSE 0 - (T[1][i] * T[1][4] + T[2][i] * T[2][4] + T[3][i] * T[3][4])]]

\* trimesh apply_transform on the vertex array: v -> M[:3,:3] v + M[:3,3]
ApplyTransform(verts, M) ==
    [k \in 1..Len(verts) |-> [i \in 1..3 |->
        M[i][1] * verts[k][1] + M[i][2] * verts[k][2] + M[i][3] * verts[k][3] + M[i][4]]]

\* fcl.Transform3f(R, t) / setRotation + setTranslation: the engine's placement
Placement(R, t) == [R |-> R, t |-> t]

\* the 4x4 pose an engine placement stands for
PoseMatrix(p) ==
    [i \in 1..4 |-> [j \in 1..4 |->
        IF i = 4 THEN (IF j = 4 THEN 1 ELSE 0)
        ELSE IF j <= 3 THEN p.R[i][j] ELSE p.t[i]]]

\* dict[k] = v
Put(d, k, v) == [x \in (DOMAIN d) \cup {k} |-> IF x = k THEN v ELSE d[x]]

\* ------------------------------------------------------------------- state
VARIABLES
    w,      \* the manager and the objects it refers to (fields below)
    last,   \* the last call made, its arguments and its outcome
    calls,  \* number of calls made so far
    caller  \* what the caller keeps of the values returned to it (fields below)

vars == <<w, last, calls, caller>>

(***************************************************************************)
(* Fields of w:                                                            *)
(*   objs     self._objs: name -> [obj, geom, mesh]                        *)
(*   applied  self._applied_transforms: name -> 4x4                        *)
(*   names    self._names: geometry id -> name                             *)
(*   manager  self._manager: registered CollisionObject -> the placement   *)
(*            its bounds in the index were computed from                   *)
(*   shapes   the CollisionObjects created: id -> current placement        *)
(*   geoms    the BVH models created: id -> vertex data compiled into it   *)
(*   meshes   the callers' mesh instances: mesh -> vertex data             *)
(*   strict   whether the engine binding rejects an argument that is not   *)
(*            a CollisionObject (fixed per build)                          *)
(* Fields of caller:                                                       *)
(*   held      the meshes get_object returned                              *)
(*   taken     whether get_objects has returned a dictionary               *)
(*   snapshot  the dictionary the last get_objects returned: name -> mesh  *)
(*   seen      the vertex data that dictionary showed when it was returned *)
(***************************************************************************)

\* CollisionManager.__init__
NewManager(st) ==
    [objs |-> <<>>, applied |-> <<>>, names |-> <<>>, manager |-> <<>>,
     shapes |-> <<>>, geoms |-> <<>>,
     meshes |-> [m \in MeshIds |-> InitVerts(m)],
     strict |-> st]

\* a call that raised: nothing is returned and W is what it was
Raise(W, e) == [w |-> W, outcome |-> e, value |-> <<>>]

\* a call that returned v and left W
Return(W, v) == [w |-> W, outcome |-> "ok", value |-> v]

\* geom.id() of the next BVH model built
NextId(W) == Cardinality(DOMAIN W.geoms) + 1

\* manager.update(): the bounds of every registered object are recomputed
UpdateAll(mgr, shp) == [o \in DOMAIN mgr |-> shp[o]]

\* manager.update(o): the bounds of o are recomputed
UpdateOne(mgr, shp, o) == [x \in DOMAIN mgr |-> IF x = o THEN shp[o] ELSE mgr[x]]

\* manager.unregisterObject(self._objs[name]): the argument is the registry
\* record (a dict), not the CollisionObject in it, so no registered object
\* matches and the index keeps what it has
UnregisterRecord(mgr, rec) == mgr

\* a plausible slip: the shape of the transform is checked after the geometry
\* id has been entered in the name map
add_object_validates_late(W, name, mesh, transform) ==
    LET tf == IF transform = NoTransform THEN Eye4 ELSE transform
        id == NextId(W)
        o == Placement(Rot(tf), Trans(tf))
        shapes1 == Put(W.shapes, id, o)
    IN  IF Shape(tf) # <<4, 4>>
        THEN Raise([W EXCEPT !.names = Put(W.names, id, name)], "ValueError")
        ELSE IF name \in DOMAIN W.objs /\ W.strict THEN Raise(W, "TypeError")
        ELSE Return([W EXCEPT
                !.objs = Put(W.objs, name, [obj |-> id, geom |-> id, mesh |-> mesh]),
                !.names = Put(W.names, id, name),
                !.geoms = Put(W.geoms, id, W.meshes[mesh]),
                !.shapes = shapes1,
                !.manager = UpdateAll(Put(W.manager, id, o), shapes1)], <<>>)

\* CollisionManager.add_object
add_object(W, name, mesh, transform) ==
    LET tf == IF transform = NoTransform THEN Eye4 ELSE transform
        id == NextId(W)
        o == Placement(Rot(tf), Trans(tf))
        mgr1 == IF name \in DOMAIN W.objs
                THEN UnregisterRecord(W.manager, W.objs[name])
                ELSE W.manager
        shapes1 == Put(W.shapes, id, o)
    IN  IF Shape(tf) # <<4, 4>> THEN Raise(W, "ValueError")
        ELSE IF name \in DOMAIN W.objs /\ W.strict THEN Raise(W, "TypeError")
        ELSE Return([W EXCEPT
                !.objs = Put(W.objs, name, [obj |-> id, geom |-> id, mesh |-> mesh]),
                !.names = Put(W.names, id, name),
                !.geoms = Put(W.geoms, id, W.meshes[mesh]),
                !.shapes = shapes1,
                !.manager = UpdateAll(Put(mgr1, id, o), shapes1)], <<>>)

\* a plausible slip: the previous pose is composed in even when relative=False
new_pose_accumulating(W, name, transform, relative) ==
    IF name \in DOMAIN W.applied
    THEN MatMul(transform, W.applied[name])
    ELSE transform

\* a plausible slip: the delta is multiplied on the wrong side
new_pose_swapped(W, name, transform, relative) ==
    IF relative THEN MatMul(W.applied[name], transform) ELSE transform

\* set_transform: the absolute pose t the call asks for
new_pose(W, name, transform, relative) ==
    IF relative THEN MatMul(transform, W.applied[name]) ELSE transform

\* set_transform on a registered name
move_object(W, name, transform, relative) ==
    IF relative /\ name \notin DOMAIN W.applied THEN Raise(W, "KeyError")
    \* transform @ prev_t with a 3x3 left operand: the shapes do not align
    ELSE IF relative /\ Shape(transform) # <<4, 4>> THEN Raise(W, "ValueError")
    \* o.setRotation(t[:3, :3]) has run when t[:3, 3] finds no fourth column
    ELSE IF Shape(transform) # <<4, 4>>
    THEN Raise([W EXCEPT !.shapes[W.objs[name].obj].R = Rot(transform)], "IndexError")
    ELSE
        LET t == new_pose(W, name, transform, relative)
            o == W.objs[name].obj
            shapes1 == [W.shapes EXCEPT ![o] = Placement(Rot(t), Trans(t))]
            mesh == W.objs[name].mesh
            undone == IF name \in DOMAIN W.applied
                      THEN ApplyTransform(W.meshes[mesh], Inv(W.applied[name]))
                      ELSE W.meshes[mesh]
        IN  Return([W EXCEPT
                !.shapes = shapes1,
                !.manager = UpdateOne(W.manager, shapes1, o),
                !.meshes = [W.meshes EXCEPT ![mesh] = ApplyTransform(undone, t)],
                !.applied = Put(W.applied, name, t)], <<>>)

\* a plausible slip: the transform is recorded before the name is looked up
set_transform_records_first(W, name, transform, relative) ==
    IF name \in DOMAIN W.objs THEN move_object(W, name, transform, relative)
    ELSE Raise([W EXCEPT !.applied = Put(W.applied, name, transform)], "ValueError")

\* CollisionManager.set_transform
set_transform(W, name, transform, relative) ==
    IF name \in DOMAIN W.objs THEN move_object(W, name, transform, relative)
    ELSE Raise(W, "ValueError")

\* CollisionManager.get_transform
get_transform(W, name) ==
    IF name \in DOMAIN W.objs THEN
        IF name \in DOMAIN W.applied THEN Return(W, W.applied[name])
        ELSE Raise(W, "KeyError")
    ELSE Raise(W, "ValueError")

\* a plausible slip: the stored mesh itself is returned
get_object_no_copy(W, name) ==
    IF name \in DOMAIN W.objs THEN Return(W, W.objs[name].mesh)
    ELSE Return(W, None)

\* the instance the next mesh.copy() creates
NextCopy(W) == CopyIds[Cardinality(DOMAIN W.meshes) - Cardinality(MeshIds) + 1]

\* CollisionManager.get_object
get_object(W, name) ==
    IF name \in DOMAIN W.objs
    THEN Return([W EXCEPT !.meshes = Put(W.meshes, NextCopy(W), W.meshes[W.objs[name].mesh])],
                NextCopy(W))
    ELSE Return(W, None)

\* CollisionManager.get_objects
get_objects(W) == Return(W, [n \in DOMAIN W.objs |-> W.objs[n].mesh])

\* CollisionManager.in_collision; the value stands for what collide() is run
\* on: the registered CollisionObjects and the placement of their bounds
in_collision(W) ==
    LET refreshed == [W EXCEPT !.manager = UpdateAll(W.manager, W.shapes)]
    IN  Return(refreshed, refreshed.manager)

\* CollisionManager._extract_name: self._names.get(geom.id())
extract_name(W, geomId) ==
    IF geomId \in DOMAIN W.names THEN W.names[geomId] ELSE None

\* a plausible slip: a repeated key is stored over the earlier entry
resolve_contact_overwriting(W, c, bidirectional, contact_pairs) ==
    LET name1 == extract_name(W, c.o1)
        name2 == extract_name(W, c.o2)
        key == <<name1, name2, c.b1, c.b2>>
        stored == Put(contact_pairs, key, <<c.point1, c.point2>>)
    IN  IF name1 = None \/ name2 = None
        THEN [outcome |-> "AssertionError", contact_pairs |-> contact_pairs]
        ELSE [outcome |-> "ok",
              contact_pairs |->
                IF bidirectional
                THEN Put(stored, <<name2, name1, c.b2, c.b1>>, <<c.point2, c.point1>>)
                ELSE stored]

\* a plausible slip: a contact whose geometry has no name is skipped
resolve_contact_skipping(W, c, bidirectional, contact_pairs) ==
    LET name1 == extract_name(W, c.o1)
        name2 == extract_name(W, c.o2)
        key == <<name1, name2, c.b1, c.b2>>
        stored == Put(contact_pairs, key, <<c.point1, c.point2>>)
    IN  IF name1 = None \/ name2 = None
        THEN [outcome |-> "ok", contact_pairs |-> contact_pairs]
        ELSE IF key \in DOMAIN contact_pairs
        THEN [outcome |-> "RuntimeWarning", contact_pairs |-> contact_pairs]
        ELSE [outcome |-> "ok",
              contact_pairs |->
                IF bidirectional
                THEN Put(stored, <<name2, name1, c.b2, c.b1>>, <<c.point2, c.point1>>)
                ELSE stored]

\* one iteration of the loop of get_collision_pairs over contact c, with the
\* dictionary built so far
resolve_contact(W, c, bidirectional, contact_pairs) ==
    LET name1 == extract_name(W, c.o1)
        name2 == extract_name(W, c.o2)
        key == <<name1, name2, c.b1, c.b2>>
        stored == Put(contact_pairs, key, <<c.point1, c.point2>>)
    IN  IF name1 = None \/ name2 = None
        THEN [outcome |-> "AssertionError", contact_pairs |-> contact_pairs]
        ELSE IF key \in DOMAIN contact_pairs
        THEN [outcome |-> "RuntimeWarning", contact_pairs |-> contact_pairs]
        ELSE [outcome |-> "ok",
              contact_pairs |->
                IF bidirectional
                THEN Put(stored, <<name2, name1, c.b2, c.b1>>, <<c.point2, c.point1>>)
                ELSE stored]

RECURSIVE resolve_from(_, _, _, _, _)
\* the loop of get_collision_pairs from the i-th contact on
resolve_from(W, contacts, bidirectional, i, contact_pairs) ==
    IF i > Len(contacts) THEN Return(W, contact_pairs)
    ELSE LET r == resolve_contact(W, contacts[i], bidirectional, contact_pairs)
         IN  IF r.outcome # "ok" THEN Raise(W, r.outcome)
             ELSE resolve_from(W, contacts, bidirectional, i + 1, r.contact_pairs)

\* CollisionManager.get_collision_pairs
get_collision_pairs(W, contacts, bidirectional) ==
    resolve_from(W, contacts, bidirectional, 1, <<>>)

\* ------------------------------------------------------------------ actions
NoCall == [op |-> "init", name |-> None, mesh |-> None, transform |-> <<>>,
           relative |-> FALSE, contacts |-> <<>>, bidirectional |-> FALSE,
           outcome |-> "ok", value |-> <<>>]

NoneKept == [held |-> {}, taken |-> FALSE, snapshot |-> <<>>, seen |-> <<>>]

Init ==
    /\ w \in {NewManager(st) : st \in BOOLEAN}
    /\ last = NoCall
    /\ calls = 0
    /\ caller = NoneKept

AddObject ==
    /\ calls < MaxCalls
    /\ NextId(w) <= MaxShapes
    /\ \E name \in Names, mesh \in MeshIds, transform \in AddTransforms :
        LET r == add_object(w, name, mesh, transform) IN
        /\ w' = r.w
        /\ last' = [NoCall EXCEPT !.op = "add_object", !.name = name, !.mesh = mesh,
                                  !.transform = transform,
                                  !.outcome = r.outcome, !.value = r.value]
    /\ calls' = calls + 1
    /\ UNCHANGED caller

SetTransform ==
    /\ calls < MaxCalls
    /\ \E name \in Names, transform \in SetTransformArgs, relative \in BOOLEAN :
        LET r == set_transform(w, name, transform, relative) IN
        /\ w' = r.w
        /\ last' = [NoCall EXCEPT !.op = "set_transform", !.name = name,
                                  !.transform = transform, !.relative = relative,
                                  !.outcome = r.outcome, !.value = r.value]
    /\ calls' = calls + 1
    /\ UNCHANGED caller

GetTransform ==
    /\ calls < MaxCalls
    /\ \E name \in Names :
        LET r == get_transform(w, name) IN
        /\ w' = r.w
        /\ last' = [NoCall EXCEPT !.op = "get_transform", !.name = name,
                                  !.outcome = r.outcome, !.value = r.value]
    /\ calls' = calls + 1
    /\ UNCHANGED caller

InCollision ==
    /\ calls < MaxCalls
    /\ LET r == in_collision(w) IN
        /\ w' = r.w
        /\ last' = [NoCall EXCEPT !.op = "in_collision",
                                  !.outcome = r.outcome, !.value = r.value]
    /\ calls' = calls + 1
    /\ UNCHANGED caller

GetObject ==
    /\ calls < MaxCalls
    /\ Cardinality(DOMAIN w.meshes) < Cardinality(MeshIds) + MaxCopies
    /\ \E name \in Names :
        LET r == get_object(w, name) IN
        /\ w' = r.w
        /\ last' = [NoCall EXCEPT !.op = "get_object", !.name = name,
                                  !.outcome = r.outcome, !.value = r.value]
        /\ caller' = [caller EXCEPT !.held = IF r.value = None THEN @ ELSE @ \cup {r.value}]
    /\ calls' = calls + 1

GetObjects ==
    /\ calls < MaxCalls
    /\ LET r == get_objects(w) IN
        /\ w' = r.w
        /\ last' = [NoCall EXCEPT !.op = "get_objects",
                                  !.outcome = r.outcome, !.value = r.value]
        /\ caller' = [caller EXCEPT
                        !.taken = TRUE,
                        !.snapshot = r.value,
                        !.seen = [n \in DOMAIN r.value |-> r.w.meshes[r.value[n]]]]
    /\ calls' = calls + 1

\* the caller transforms, in place, a mesh get_object returned to it
MutateReturned ==
    /\ calls < MaxCalls
    /\ \E mesh \in caller.held, transform \in Transforms :
        /\ w' = [w EXCEPT !.meshes[mesh] = ApplyTransform(@, transform)]
        /\ last' = [NoCall EXCEPT !.op = "mutate_returned", !.mesh = mesh,
                                  !.transform = transform]
    /\ calls' = calls + 1
    /\ UNCHANGED caller

Next ==
    \/ AddObject \/ SetTransform \/ GetTransform \/ InCollision
    \/ GetObject \/ GetObjects \/ MutateReturned

Spec == Init /\ [][Next]_vars

(***************************************************************************)
(* The contact resolver reads self._names and changes nothing.  It is      *)
(* checked from every registry a sequence of add_object calls produces,    *)
(* on every list of at most MaxContacts raw contacts.  A call leaves the   *)
(* manager as it was, so one call from each registry shows all there is.   *)
(***************************************************************************)
RECURSIVE AfterAdds(_, _)
\* the manager after add_object(name, "m1") for each name of the sequence
AfterAdds(W, ns) ==
    IF ns = <<>> THEN W
    ELSE AfterAdds(add_object(W, Head(ns), "m1", NoTransform).w, Tail(ns))

NameSeqs == UNION {[1..n -> Names] : n \in 0..MaxShapes}

\* raw contacts: two geometry ids, two sub-element indices, two nearest points
Contacts ==
    [o1 : ContactGeoms, o2 : ContactGeoms, b1 : SubElems, b2 : SubElems,
     point1 : {"p"}, point2 : {"q"}]

ContactLists == UNION {[1..n -> Contacts] : n \in 0..MaxContacts}

InitPairs ==
    /\ w \in {AfterAdds(NewManager(st), ns) : st \in BOOLEAN, ns \in NameSeqs}
    /\ last = NoCall
    /\ calls = MaxCalls - 1
    /\ caller = NoneKept

GetCollisionPairs ==
    /\ calls < MaxCalls
    /\ \E contacts \in ContactLists, bidirectional \in BOOLEAN :
        LET r == get_collision_pairs(w, contacts, bidirectional) IN
        /\ w' = r.w
        /\ last' = [NoCall EXCEPT !.op = "get_collision_pairs", !.contacts = contacts,
                                  !.bidirectional = bidirectional,
                                  !.outcome = r.outcome, !.value = r.value]
    /\ calls' = calls + 1
    /\ UNCHANGED caller

NextPairs == GetCollisionPairs

SpecPairs == InitPairs /\ [][NextPairs]_vars

\* ------------------------------------------------------------- properties
\* the world pose of n's engine shape, as a 4x4 matrix
ShapePose(W, n) == PoseMatrix(W.shapes[W.objs[n].obj])

\* the vertex data of n's mesh
MeshVerts(W, n) == W.meshes[W.objs[n].mesh]

\* the vertex data n's mesh had when it was registered (compiled into the shape)
RegisteredVerts(W, n) == W.geoms[W.objs[n].geom]

\* the shapes the registry holds
LiveShapes(W) == {W.objs[n].obj : n \in DOMAIN W.objs}

\* C1: in every reachable state, for every registered object, the engine
\* shape's pose, appliedTransform (once there is one) and the pose the mesh's
\* vertex data stands in are the same pose.
C1_PosesAgree ==
    \A n \in DOMAIN w.objs :
        /\ MeshVerts(w, n) = ApplyTransform(RegisteredVerts(w, n), ShapePose(w, n))
        /\ n \in DOMAIN w.applied => w.applied[n] = ShapePose(w, n)

\* C2: add_object on a name that is already registered completes, and
\* afterwards the spatial index holds exactly the shapes of the registered
\* objects (nothing of the replaced object is left in it).
C2_IdempotentReplace ==
    [][(/\ calls' = calls + 1
        /\ last'.op = "add_object"
        /\ last'.transform # Bad3x3
        /\ last'.name \in DOMAIN w.objs)
       => (/\ last'.outcome = "ok"
           /\ DOMAIN w'.objs = DOMAIN w.objs
           /\ DOMAIN w'.manager = LiveShapes(w'))]_vars

\* C3: after a set_transform call that returned, the mesh's vertex data is
\* get_transform(name) applied to the mesh as it was registered.
C3_MeshFollowsTransform ==
    (last.op = "set_transform" /\ last.outcome = "ok")
    => /\ get_transform(w, last.name).outcome = "ok"
       /\ MeshVerts(w, last.name)
            = ApplyTransform(RegisteredVerts(w, last.name),
                             get_transform(w, last.name).value)

\* C4: set_transform(name, T0) followed by set_transform(name, D, relative),
\* for 4x4 transforms T0 and D, leaves get_transform(name) = D @ T0, and the same manager (shape pose,
\* index, mesh, appliedTransform) as set_transform(name, D @ T0) would have.
C4_RelativeComposition ==
    [][(/\ calls' = calls + 1
        /\ last.op = "set_transform" /\ last.outcome = "ok" /\ ~last.relative
        /\ last'.op = "set_transform" /\ last'.relative
        /\ last'.transform \in Transforms
        /\ last'.name = last.name)
       => LET composed == MatMul(last'.transform, last.transform) IN
          /\ last'.outcome = "ok"
          /\ get_transform(w', last.name) = Return(w', composed)
          /\ ShapePose(w', last.name) = composed
          /\ w' = set_transform(w, last.name, composed, FALSE).w]_vars

\* C4 witness: a relative RotZ was applied on top of the absolute TransX, an
\* order of composition that matters.
C4_Witness ==
    /\ last.op = "set_transform" /\ last.relative /\ last.outcome = "ok"
    /\ last.transform = RotZ
    /\ w.applied[last.name] = MatMul(RotZ, TransX)
    /\ MatMul(RotZ, TransX) # MatMul(TransX, RotZ)

\* C5: get_transform(name) right after set_transform(name, T, relative=false)
\* returns T.
C5_RoundTrip ==
    [][(/\ calls' = calls + 1
        /\ last.op = "set_transform" /\ last.outcome = "ok" /\ ~last.relative
        /\ last'.op = "get_transform"
        /\ last'.name = last.name)
       => (last'.outcome = "ok" /\ last'.value = last.transform)]_vars

\* C5 witness: get_transform returned the transform of the object after
\* earlier calls had added and moved it.
C5_Witness ==
    /\ last.op = "get_transform" /\ last.outcome = "ok"
    /\ last.value = RotZ
    /\ calls >= 3

\* C6: get_transform either returns the transform or raises the not-found
\* error, and raises only for a name that is not registered.
C6_GetTransformOutcomes ==
    last.op = "get_transform"
    => /\ last.outcome \in {"ok", "ValueError"}
       /\ last.outcome = "ValueError" => last.name \notin DOMAIN w.objs
       /\ last.name \in DOMAIN w.objs => last.outcome = "ok"

\* C7: set_transform on a name that is not registered raises the not-found
\* error and changes nothing of the manager.
C7_SetTransformNotFound ==
    [][(/\ calls' = calls + 1
        /\ last'.op = "set_transform"
        /\ last'.name \notin DOMAIN w.objs)
       => (last'.outcome = "ValueError" /\ w' = w)]_vars

\* C7 witness: set_transform raised not-found while another object was
\* registered and had been moved.
C7_Witness ==
    /\ last.op = "set_transform" /\ last.outcome = "ValueError"
    /\ last.name \notin DOMAIN w.objs
    /\ DOMAIN w.applied # {}

\* the key a raw contact resolves to
ContactKey(W, c) == <<extract_name(W, c.o1), extract_name(W, c.o2), c.b1, c.b2>>

\* both geometry ids of the contact resolve to a name
Resolves(W, c) == extract_name(W, c.o1) # None /\ extract_name(W, c.o2) # None

\* C8: when two contacts of the list resolve to the same key,
\* get_collision_pairs raises.
C8_DuplicateKeyRaises ==
    (/\ last.op = "get_collision_pairs"
     /\ \E i, j \in 1..Len(last.contacts) :
            /\ i < j
            /\ Resolves(w, last.contacts[i]) /\ Resolves(w, last.contacts[j])
            /\ ContactKey(w, last.contacts[i]) = ContactKey(w, last.contacts[j]))
    => last.outcome \in {"RuntimeWarning", "AssertionError"}

\* C8 witness: a list with a repeated key was rejected.
C8_Witness ==
    /\ last.op = "get_collision_pairs" /\ last.outcome = "RuntimeWarning"
    /\ Len(last.contacts) = 2
    /\ Resolves(w, last.contacts[1])
    /\ ContactKey(w, last.contacts[1]) = ContactKey(w, last.contacts[2])

\* C9: a mapping returned with bidirectional=true has, for every key
\* (A,B,i,j) -> (p,q), the key (B,A,j,i) -> (q,p).
C9_Mirrored ==
    (last.op = "get_collision_pairs" /\ last.bidirectional /\ last.outcome = "ok")
    => \A k \in DOMAIN last.value :
        /\ <<k[2], k[1], k[4], k[3]>> \in DOMAIN last.value
        /\ last.value[<<k[2], k[1], k[4], k[3]>>] = <<last.value[k][2], last.value[k][1]>>

\* C10: when a geometry id of some contact resolves to no name,
\* get_collision_pairs raises.
C10_UnresolvedRaises ==
    (/\ last.op = "get_collision_pairs"
     /\ \E i \in 1..Len(last.contacts) : ~Resolves(w, last.contacts[i]))
    => last.outcome \in {"AssertionError", "RuntimeWarning"}

\* C10 witness: a contact on a geometry the registry does not know was
\* rejected after a resolvable one had been stored.
C10_Witness ==
    /\ last.op = "get_collision_pairs" /\ last.outcome = "AssertionError"
    /\ Len(last.contacts) = 2
    /\ Resolves(w, last.contacts[1])
    /\ ~Resolves(w, last.contacts[2])

\* C11: add_object with a transform that is not 4x4 raises the validation
\* error and leaves the registry, the spatial index and the name map as they
\* were.
C11_BadTransformRejected ==
    [][(/\ calls' = calls + 1
        /\ last'.op = "add_object"
        /\ last'.transform = Bad3x3)
       => (last'.outcome = "ValueError" /\ w' = w)]_vars

\* C11 witness: a 3x3 transform was rejected for a name that is registered,
\* so there was an object the call could have replaced.
C11_Witness ==
    /\ last.op = "add_object" /\ last.outcome = "ValueError"
    /\ last.transform = Bad3x3
    /\ last.name \in DOMAIN w.objs

\* C12: get_object returns a copy.  For a registered name the call leaves the
\* manager's objects as they were and returns a mesh that is none of the
\* registry's, with the vertex data of the object's mesh; when the caller
\* mutates a returned mesh, nothing the manager holds changes; set_transform
\* and add_object change no mesh returned earlier; for an unregistered name
\* the call returns None.
C12_DefensiveCopy ==
    [][(calls' = calls + 1)
       => /\ (last'.op = "get_object" /\ last'.name \in DOMAIN w.objs)
                => /\ last'.outcome = "ok"
                   /\ \A n \in DOMAIN w.objs : last'.value # w.objs[n].mesh
                   /\ w'.meshes[last'.value] = MeshVerts(w, last'.name)
                   /\ \A m \in DOMAIN w.meshes : w'.meshes[m] = w.meshes[m]
                   /\ [w' EXCEPT !.meshes = w.meshes] = w
          /\ (last'.op = "get_object" /\ last'.name \notin DOMAIN w.objs)
                => (last'.outcome = "ok" /\ last'.value = None /\ w' = w)
          /\ last'.op = "mutate_returned"
                => /\ \A n \in DOMAIN w.objs : MeshVerts(w', n) = MeshVerts(w, n)
                   /\ [w' EXCEPT !.meshes = w.meshes] = w
          /\ last'.op \in {"set_transform", "add_object"}
                => \A c \in caller.held : w'.meshes[c] = w.meshes[c]]_vars

\* C12 witness: the caller has changed the mesh get_object returned for an
\* object that had been moved, and the object's mesh is still where
\* set_transform put it.
C12_Witness ==
    /\ last.op = "mutate_returned"
    /\ \E n \in DOMAIN w.applied :
        /\ n \in DOMAIN w.objs
        /\ w.meshes[last.mesh] # MeshVerts(w, n)
        /\ MeshVerts(w, n) = ApplyTransform(RegisteredVerts(w, n), w.applied[n])

\* C13: get_objects returns a dictionary with exactly the registered names,
\* and what a returned dictionary shows (its names and the vertex data of each
\* mesh) stays what it was when it was returned.
C13_SnapshotStable ==
    /\ last.op = "get_objects" => DOMAIN last.value = DOMAIN w.objs
    /\ caller.taken =>
        \A n \in DOMAIN caller.snapshot : w.meshes[caller.snapshot[n]] = caller.seen[n]

\* the geometry ids a caller can hold: those of the models built so far and
\* the one no model has yet
KnownGeoms(W) == 1..NextId(W)

Undone(W, n) ==
    IF n \in DOMAIN W.applied
    THEN ApplyTransform(MeshVerts(W, n), Inv(W.applied[n]))
    ELSE MeshVerts(W, n)

\* C16: after a set_transform call, returned or raised, either nothing of the
\* manager has changed, or the shape pose, the index bounds, the mesh and
\* appliedTransform of the object all stand at the one new pose.
C16_AllOrNothing ==
    [][(calls' = calls + 1 /\ last'.op = "set_transform")
       => \/ w' = w
          \/ /\ last'.name \in DOMAIN w'.applied
             /\ ShapePose(w', last'.name) = w'.applied[last'.name]
             /\ w'.manager[w'.objs[last'.name].obj] = w'.shapes[w'.objs[last'.name].obj]
             /\ MeshVerts(w', last'.name)
                    = ApplyTransform(Undone(w, last'.name), w'.applied[last'.name])]_vars

C18_NoSilentOverwrite ==
    (last.op = "get_collision_pairs" /\ last.outcome = "ok")
    => Cardinality(DOMAIN last.value)
         = (IF last.bidirectional THEN 2 ELSE 1) * Len(last.contacts)

\* C19: set_transform(name, ...) leaves the mesh, the shape pose and the
\* appliedTransform of every other registered object as they were.
C19_OthersUntouched ==
    [][(calls' = calls + 1 /\ last'.op = "set_transform")
       => \A n \in DOMAIN w.objs \ {last'.name} :
            /\ MeshVerts(w', n) = MeshVerts(w, n)
            /\ ShapePose(w', n) = ShapePose(w, n)
            /\ (n \in DOMAIN w'.applied) = (n \in DOMAIN w.applied)
            /\ n \in DOMAIN w.applied => w'.applied[n] = w.applied[n]]_vars

====
